---- MODULE Spec2Model ----
(***************************************************************************)
(* Streaming XML rewrite engine of go-ObuFuku: runTransform builds the     *)
(* rule set from the configuration, processor.Run pulls one token at a     *)
(* time from the decoder and hands it to handleStartElement,               *)
(* handleCharData or handleEndElement, which write through the encoder     *)
(* (or, for raw tags, directly to the writer).                             *)
(*                                                                         *)
(* Strings are sequences of one-character strings, so that TrimSpace,      *)
(* ReplaceAll, prefixing and quote stripping are computed, not assumed.    *)
(* A counter value substituted into a template appears as its decimal      *)
(* representation, one element of such a sequence.                         *)
(***************************************************************************)
EXTENDS Integers, Sequences, FiniteSets, TLC

(***************************************************************************)
(* Bounds of the exploration.                                              *)
(***************************************************************************)
\* number of StartElement, CharData and Comment tokens the decoder delivers
MaxEvents == 3

(***************************************************************************)
(* Tokens (encoding/xml Token values).                                     *)
(***************************************************************************)
Tok(k, n, a, d) == [kind |-> k, name |-> n, attr |-> a, data |-> d]
StartElement(n, a) == Tok("StartElement", n, a, <<>>)
EndElement(n) == Tok("EndElement", n, <<>>, <<>>)
CharData(d) == Tok("CharData", "", <<>>, d)
Comment == Tok("Comment", "", <<>>, <<>>)
\* a direct write of a string to the writer, bypassing the encoder
RawWrite(d) == Tok("RawWrite", "", <<>>, d)
\* the format verb %d inside a template
Verb == Tok("Verb", "", <<>>, <<>>)

(***************************************************************************)
(* Small helpers on sequences.                                             *)
(***************************************************************************)
Last(s) == s[Len(s)]
Front(s) == SubSeq(s, 1, Len(s) - 1)
IsPrefix(s, t) == Len(s) <= Len(t) /\ SubSeq(t, 1, Len(s)) = s
Range(s) == {s[i] : i \in 1..Len(s)}

RECURSIVE SeqCat(_)
SeqCat(ss) == IF ss = <<>> THEN <<>> ELSE Head(ss) \o SeqCat(Tail(ss))

(***************************************************************************)
(* strings.TrimSpace(s) == "" : every character is white space.            *)
(***************************************************************************)
SpaceCharsBlankOnly == {" "}
SpaceChars == {" ", "\t", "\n", "\r"}
IsEmptyText(s) == s = <<>>
IsWhitespaceOnly(s) == \A i \in 1..Len(s) : s[i] \in SpaceChars

(***************************************************************************)
(* strings.ReplaceAll(s, old, new): non-overlapping matches, left to       *)
(* right; an empty old matches before every character and at the end.      *)
(***************************************************************************)
HasPrefixAt(s, i, old) ==
    /\ i + Len(old) - 1 <= Len(s)
    /\ SubSeq(s, i, i + Len(old) - 1) = old

RECURSIVE ReplaceFrom(_, _, _, _)
ReplaceFrom(s, i, old, new) ==
    IF i > Len(s) THEN <<>>
    ELSE IF HasPrefixAt(s, i, old)
         THEN new \o ReplaceFrom(s, i + Len(old), old, new)
         ELSE <<s[i]>> \o ReplaceFrom(s, i + 1, old, new)

RECURSIVE InsertBetween(_, _, _)
InsertBetween(s, i, new) ==
    IF i > Len(s) THEN new
    ELSE new \o <<s[i]>> \o InsertBetween(s, i + 1, new)

ReplaceAll(s, old, new) ==
    IF old = <<>> THEN InsertBetween(s, 1, new)
    ELSE ReplaceFrom(s, 1, old, new)

\* handleCharData: the substitution loop over p.cdataRules
ApplyCdataRulesFirstOnly(text, rules) ==
    IF rules = <<>> THEN text
    ELSE ReplaceAll(text, Head(rules).Old, Head(rules).New)

RECURSIVE ApplyCdataRules(_, _)
ApplyCdataRules(text, rules) ==
    IF rules = <<>> THEN text
    ELSE ApplyCdataRules(ReplaceAll(text, Head(rules).Old, Head(rules).New),
                         Tail(rules))

CdataOpen == <<"<", "!", "[", "C", "D", "A", "T", "A", "[">>
CdataClose == <<"]", "]", ">">>

(***************************************************************************)
(* Counter.Next: increment, then return the new value.                     *)
(***************************************************************************)
CounterNextPostIncrement(current) == [current |-> current + 1, ret |-> current]
CounterNext(current) == [current |-> current + 1, ret |-> current + 1]

(***************************************************************************)
(* buildValueReplaceFunc: the closure is the pair (kind, fixed string).    *)
(* A parameter value is [isString, val]; a missing key is absent from the  *)
(* DOMAIN of Params.                                                       *)
(***************************************************************************)
NoFunc == [type |-> "none", param |-> <<>>]

\* an error value: the format string and the argument formatted into it
Error(msg, arg) == [msg |-> msg, arg |-> arg]
NoError == Error("", "")

buildValueReplaceFunc(rule) ==
    IF rule.Type = "prepend"
    THEN IF "prefix" \in DOMAIN rule.Params /\ rule.Params["prefix"].isString
         THEN [fn |-> [type |-> "prepend", param |-> rule.Params["prefix"].val],
               err |-> FALSE, error |-> NoError]
         ELSE [fn |-> NoFunc, err |-> TRUE,
               error |-> Error("invalid or missing 'prefix' for prepend rule", "")]
    ELSE IF rule.Type = "append"
    THEN IF "suffix" \in DOMAIN rule.Params /\ rule.Params["suffix"].isString
         THEN [fn |-> [type |-> "append", param |-> rule.Params["suffix"].val],
               err |-> FALSE, error |-> NoError]
         ELSE [fn |-> NoFunc, err |-> TRUE,
               error |-> Error("invalid or missing 'suffix' for append rule", "")]
    ELSE [fn |-> NoFunc, err |-> TRUE,
          error |-> Error("unknown value rule type: '%s'", rule.Type)]

\* calling the closure returned by buildValueReplaceFunc
ReplacementFunc(fn, oldValue) ==
    IF fn.type = "prepend" THEN fn.param \o oldValue
    ELSE oldValue \o fn.param

(***************************************************************************)
(* fmt.Sprintf(template, count): the first %d becomes the number, a later  *)
(* one has no operand, and a template without a verb gets the unused       *)
(* operand appended.  A template is a sequence of tags, text and verbs.    *)
(***************************************************************************)
RECURSIVE SubstVerbs(_, _, _)
SubstVerbs(tpl, count, used) ==
    IF tpl = <<>> THEN <<>>
    ELSE IF Head(tpl).kind = "Verb"
         THEN <<CharData(IF used THEN <<"%!d(MISSING)">> ELSE <<ToString(count)>>)>>
              \o SubstVerbs(Tail(tpl), count, TRUE)
         ELSE <<Head(tpl)>> \o SubstVerbs(Tail(tpl), count, used)

HasVerb(tpl) == \E i \in 1..Len(tpl) : tpl[i].kind = "Verb"

Sprintf(tpl, count) ==
    SubstVerbs(tpl, count, FALSE)
      \o (IF HasVerb(tpl) THEN <<>>
          ELSE <<CharData(<<"%!(EXTRA int=", ToString(count), ")">>)>>)

\* the template taken verbatim: %d stays as the two characters it is
RECURSIVE Verbatim(_)
Verbatim(tpl) ==
    IF tpl = <<>> THEN <<>>
    ELSE <<IF Head(tpl).kind = "Verb" THEN CharData(<<"%", "d">>) ELSE Head(tpl)>>
         \o Verbatim(Tail(tpl))

(***************************************************************************)
(* The fragment decoder (xml.NewDecoder on the expanded string, Strict):   *)
(* adjacent character data is one token; an end tag must match the         *)
(* innermost open start tag; the end of the string with a tag still open   *)
(* is an error.  Tokens before the error have already been delivered.      *)
(***************************************************************************)
RECURSIVE MergeText(_)
MergeText(raw) ==
    IF Len(raw) < 2 THEN raw
    ELSE IF raw[1].kind = "CharData" /\ raw[2].kind = "CharData"
         THEN MergeText(<<CharData(raw[1].data \o raw[2].data)>> \o Tail(Tail(raw)))
         ELSE <<raw[1]>> \o MergeText(Tail(raw))

RECURSIVE DecodeFrom(_, _)
DecodeFrom(raw, stk) ==
    IF raw = <<>> THEN [toks |-> <<>>, err |-> stk # <<>>]
    ELSE LET t == Head(raw) IN
         IF t.kind = "StartElement"
         THEN LET r == DecodeFrom(Tail(raw), Append(stk, t.name))
              IN  [toks |-> <<t>> \o r.toks, err |-> r.err]
         ELSE IF t.kind = "EndElement"
         THEN IF stk = <<>> \/ Last(stk) # t.name
              THEN [toks |-> <<>>, err |-> TRUE]
              ELSE LET r == DecodeFrom(Tail(raw), Front(stk))
                   IN  [toks |-> <<t>> \o r.toks, err |-> r.err]
         ELSE LET r == DecodeFrom(Tail(raw), stk)
              IN  [toks |-> <<t>> \o r.toks, err |-> r.err]

\* a fragment decoder that would drop white space as handleCharData does
FragmentTokensTrimmed(xmlFragment) ==
    LET d == DecodeFrom(MergeText(xmlFragment), <<>>)
    IN  [d EXCEPT !.toks = SelectSeq(@, LAMBDA t : ~(t.kind = "CharData"
                                                   /\ IsWhitespaceOnly(t.data)))]

FragmentTokens(xmlFragment) == DecodeFrom(MergeText(xmlFragment), <<>>)

(***************************************************************************)
(* xml.Encoder.EncodeToken: the encoder keeps its own stack of open tags   *)
(* and refuses a tag without a name and an end tag that does not close the *)
(* innermost open tag; what it accepts goes to its buffer.                 *)
(***************************************************************************)
EncodeToken(enc, t) ==
    IF t.kind = "StartElement"
    THEN IF t.name = "" THEN [enc |-> enc, err |-> TRUE]
         ELSE [enc |-> [tags |-> Append(enc.tags, t.name), buf |-> Append(enc.buf, t)],
               err |-> FALSE]
    ELSE IF t.kind = "EndElement"
    THEN IF t.name = "" \/ enc.tags = <<>> \/ Last(enc.tags) # t.name
         THEN [enc |-> enc, err |-> TRUE]
         ELSE [enc |-> [tags |-> Front(enc.tags), buf |-> Append(enc.buf, t)],
               err |-> FALSE]
    ELSE [enc |-> [enc EXCEPT !.buf = Append(@, t)], err |-> FALSE]

(***************************************************************************)
(* crlfWriter.Write on a string: every line feed becomes CR LF.            *)
(***************************************************************************)
CrlfBytesForwarded(p) == p
CrlfBytes(p) == ReplaceAll(p, <<"\n">>, <<"\r", "\n">>)

\* Write(p): crlfBytes goes to the sink, and Write returns what the sink
\* returns for it; a sink that takes all of crlfBytes returns its length
Write(p) == [crlfBytes |-> CrlfBytes(p), n |-> Len(CrlfBytes(p))]

(***************************************************************************)
(* The running state of one handler call:                                  *)
(*   encoder, writer, counters  the objects the handler writes             *)
(*   out   the log of everything emitted, in emission order; each entry    *)
(*         carries the token, the step that emitted it (role) and, for a   *)
(*         fragment token, the index of its rule                           *)
(*   err   the handler has returned an error                               *)
(*   error the error it returned                                           *)
(***************************************************************************)
Entry(t, role, rule) == [tok |-> t, role |-> role, rule |-> rule]

\* p.encoder.EncodeToken(t) followed by "if err != nil { return err }"
Emit(st, t, role, rule) ==
    IF st.err THEN st
    ELSE LET r == EncodeToken(st.encoder, t) IN
         IF r.err THEN [st EXCEPT !.err = TRUE, !.error = Error("xml: EncodeToken", "")]
         ELSE [st EXCEPT !.encoder = r.enc,
                         !.out = Append(@, Entry(t, role, rule))]

RECURSIVE EmitAll(_, _, _, _)
EmitAll(st, toks, role, rule) ==
    IF toks = <<>> \/ st.err THEN st
    ELSE EmitAll(Emit(st, Head(toks), role, rule), Tail(toks), role, rule)

\* p.encoder.Flush(): the buffer goes to the writer
FlushKeepsBuffer(st) == st
Flush(st) ==
    IF st.err THEN st
    ELSE [st EXCEPT !.writer = @ \o st.encoder.buf, !.encoder.buf = <<>>]

\* handleCharData, the raw branch: the encoder is flushed before the writes
FlushBeforeRawSkipped(st) == st
FlushBeforeRaw(st) == Flush(st)

\* io.WriteString(p.writer, s): straight to the crlfWriter
WriteString(st, s) ==
    IF st.err THEN st
    ELSE [st EXCEPT !.writer = Append(@, RawWrite(Write(s).crlfBytes)),
                    !.out = Append(@, Entry(RawWrite(s), "real", 0))]

(***************************************************************************)
(* The body of the three insertion loops (before, prepend-child, after):   *)
(* advance the rule's counter if it has one, expand the template, decode   *)
(* the fragment and encode its tokens one by one.                          *)
(***************************************************************************)
Nil == "<nil>"

ExpandFragment(st, rule, role, idx) ==
    LET hasCounter == rule.Counter # Nil
        nxt == CounterNext(st.counters[rule.Counter])
        st1 == IF hasCounter
               THEN [st EXCEPT !.counters[rule.Counter] = nxt.current]
               ELSE st
        xmlFragment == IF hasCounter THEN Sprintf(rule.XMLTemplate, nxt.ret)
                       ELSE Verbatim(rule.XMLTemplate)
        dec == FragmentTokens(xmlFragment)
        st2 == EmitAll(st1, dec.toks, role, idx)
    IN  IF st2.err \/ ~dec.err THEN st2
        ELSE [st2 EXCEPT !.err = TRUE, !.error = Error("xml: Token", "")]

\* a loop that would handle the fragment's own tags as well: the rule is
\* expanded again for a tag of its fragment that has the rule's target name
RECURSIVE InsertLoopReentrant(_, _, _, _, _)
InsertLoopReentrant(st, rules, i, name, role) ==
    IF i > Len(rules) \/ st.err THEN st
    ELSE LET once == ExpandFragment(st, rules[i], role, i)
             again == \E x \in 1..Len(rules[i].XMLTemplate) :
                         /\ rules[i].XMLTemplate[x].kind = "StartElement"
                         /\ rules[i].XMLTemplate[x].name = name
         IN  InsertLoopReentrant(
                 IF name # rules[i].TargetTag THEN st
                 ELSE IF again /\ ~once.err
                      THEN ExpandFragment(once, rules[i], role, i)
                      ELSE once,
                 rules, i + 1, name, role)

RECURSIVE InsertLoop(_, _, _, _, _)
InsertLoop(st, rules, i, name, role) ==
    IF i > Len(rules) \/ st.err THEN st
    ELSE InsertLoop(IF name = rules[i].TargetTag
                    THEN ExpandFragment(st, rules[i], role, i)
                    ELSE st,
                    rules, i + 1, name, role)

(***************************************************************************)
(* handleStartElement, step by step.                                       *)
(***************************************************************************)
\* the rename loop: the first rule whose OldName is the name, then break
RECURSIVE ApplyNameRulesChained(_, _)
ApplyNameRulesChained(name, rules) ==
    IF rules = <<>> THEN name
    ELSE ApplyNameRulesChained(IF name = Head(rules).OldName
                               THEN Head(rules).NewName ELSE name,
                               Tail(rules))

RECURSIVE ApplyNameRules(_, _)
ApplyNameRules(name, rules) ==
    IF rules = <<>> THEN name
    ELSE IF name = Head(rules).OldName THEN Head(rules).NewName
    ELSE ApplyNameRules(name, Tail(rules))

\* the attribute loop: strip one pair of surrounding double quotes
SanitizeValueNoLength(v) ==
    IF v # <<>> /\ v[1] = "\"" /\ v[Len(v)] = "\""
    THEN SubSeq(v, 2, Len(v) - 1)
    ELSE v

SanitizeValue(v) ==
    IF Len(v) >= 2 /\ v[1] = "\"" /\ v[Len(v)] = "\""
    THEN SubSeq(v, 2, Len(v) - 1)
    ELSE v

SanitizeAttrs(attr) ==
    [i \in 1..Len(attr) |-> [attr[i] EXCEPT !.Value = SanitizeValue(@)]]

\* the wrapper start tag, when the output name is a key of wrapRuleMap
WrapperStart(st, wrapMap, name) ==
    IF name \in DOMAIN wrapMap
    THEN Emit(st, StartElement(wrapMap[name], <<>>), "wrapper", 0)
    ELSE st

\* the wrapper end tag, when the popped name is a key of wrapRuleMap
WrapperEnd(st, wrapMap, name) ==
    IF name \in DOMAIN wrapMap
    THEN Emit(st, EndElement(wrapMap[name]), "wrapper", 0)
    ELSE st

\* the real end tag carries the name of the popped stack entry, not ee's
EndNameFromInput(lastStartedElem, ee) == ee.name
EndName(lastStartedElem, ee) == lastStartedElem.name

RealEndOmitted(st, lastStartedElem, ee) == st
RealEnd(st, lastStartedElem, ee) ==
    Emit(st, EndElement(EndName(lastStartedElem, ee)), "real", 0)

\* the name each lookup of handleStartElement and handleEndElement compares
\* with TargetTag: se is the token as received, processedSE the renamed one
BeforeKeyRenamed(se, processedSE) == processedSE.name
BeforeKey(se, processedSE) == se.name
PrependKeyFromInput(se, processedSE) == se.name
PrependKey(se, processedSE) == processedSE.name
WrapKeyFromInput(se, processedSE) == se.name
WrapKey(se, processedSE) == processedSE.name
AfterKeyPopped(lastStartedElem, ee) == lastStartedElem.name
AfterKey(lastStartedElem, ee) == ee.name

\* p.elementStack = append(p.elementStack, processedSE)
StackEntryFromInput(se, processedSE) == se
StackEntry(se, processedSE) == processedSE
StackPush(stack, processedSE) == Append(stack, processedSE)
\* p.elementStack = p.elementStack[:len(p.elementStack)-1]
StackPopKeeps(stack) == stack
StackPop(stack) == Front(stack)

(***************************************************************************)
(* Configurations (the Config struct read from the rule file).             *)
(***************************************************************************)
NR(old, new) == [Old |-> old, New |-> new]
IR(target, template, counter) ==
    [Target |-> target, Template |-> template, Counter |-> counter]
VR(target, type, params) == [Target |-> target, Type |-> type, Params |-> params]
WR(target, wrapper) == [Target |-> target, Wrapper |-> wrapper]
CR(old, new) == [Old |-> old, New |-> new]
Str(v) == [isString |-> TRUE, val |-> v]
NotStr == [isString |-> FALSE, val |-> <<>>]
NoParams == [k \in {} |-> NotStr]
Param(k, v) == [x \in {k} |-> v]

Attr(n, v) == [Name |-> n, Value |-> v]

\* the templates <a>%d</a>, <B></B>, x%d, the unclosed <A> and the
\* unopened </A>
TplNum == <<StartElement("a", <<>>), Verb, EndElement("a")>>
TplPlain == <<StartElement("B", <<>>), EndElement("B")>>
TplText == <<CharData(<<"x">>), Verb>>
TplUnclosed == <<StartElement("A", <<>>)>>
TplUnopened == <<EndElement("A")>>

\* <b k="&#34;v&#34;"> </b>x: a tag that rules target, with a quoted
\* attribute value, white space as its text, and text after it
TplRich ==
    <<StartElement("b", <<Attr("k", <<"\"", "v", "\"">>)>>), CharData(<<" ">>),
      EndElement("b"), CharData(<<"x">>)>>

CounterConfig == [c \in {"c1", "c2"} |-> IF c = "c1" THEN 0 ELSE 5]

WrapB == <<WR("b", "w")>>
WrapTwice == <<WR("c", "w"), WR("c", "v"), WR("a", "w")>>

BeforeA == <<IR("a", TplNum, "c1")>>
BeforeB == <<IR("b", TplPlain, ""), IR("b", TplNum, "c1"), IR("c", TplPlain, "c2")>>
BeforeAB == <<IR("b", TplPlain, ""), IR("a", TplNum, "c1"), IR("b", TplNum, "c1")>>
BeforeBad == <<IR("b", TplNum, "c1"), IR("b", TplUnclosed, "c2"), IR("b", TplPlain, "")>>

AfterB == <<IR("b", TplNum, "c1")>>
AfterA ==
    <<IR("a", TplNum, "c2"), IR("b", TplPlain, "c1"), IR("a", TplPlain, ""),
      IR("c", TplNum, "c1")>>
AfterBad == <<IR("b", TplNum, "c1"), IR("b", TplUnopened, ""), IR("b", TplNum, "c1")>>

PrependB == <<IR("b", TplNum, "c1")>>
PrependC == <<IR("c", TplPlain, "c2"), IR("c", TplNum, "c2"), IR("b", TplText, "zz")>>
PrependBad == <<IR("a", TplUnclosed, "")>>

ValuePrepend == <<VR("b", "prepend", Param("prefix", Str(<<"p">>)))>>
ValueTwo ==
    <<VR("b", "append", Param("suffix", Str(<<"s">>))),
      VR("b", "prepend", Param("prefix", Str(<<"p">>))),
      VR("a", "prepend", Param("prefix", Str(<<"q", "r">>)))>>
ValueA == <<VR("a", "append", Param("suffix", Str(<<"s">>)))>>
ValueBadLists ==
    { <<VR("a", "prepend", Param("suffix", Str(<<"s">>)))>>,
      <<VR("a", "append", Param("suffix", NotStr))>>,
      <<VR("a", "replace", NoParams)>>,
      <<VR("b", "prepend", Param("prefix", Str(<<"p">>))),
        VR("a", "prepend", NoParams)>> }

\* rules on a and on b, for documents whose a is renamed to b
PrependAB == <<IR("a", TplPlain, ""), IR("b", TplNum, "c1")>>
ValueAB ==
    <<VR("a", "append", Param("suffix", Str(<<"s">>))),
      VR("b", "prepend", Param("prefix", Str(<<"p">>)))>>
WrapAB == <<WR("a", "v"), WR("b", "w")>>

\* fragments with the tag b at the three places of an element a, and rules
\* of every kind on b
BeforeRich == <<IR("a", TplRich, ""), IR("b", TplPlain, "")>>
AfterRich == <<IR("a", TplRich, ""), IR("b", TplPlain, "")>>
PrependRich == <<IR("a", TplRich, ""), IR("b", TplPlain, "")>>

CdataSwap == <<CR(<<"x">>, <<"y">>), CR(<<"y">>, <<"x">>)>>
CdataLt == <<CR(<<"y">>, <<"<">>)>>
CdataEnd == <<CR(<<"y">>, <<"]", "]", ">">>)>>

Cfg(nr, ir, iar, pcr, vr, wr, cr, rt) ==
    [NameRules |-> nr, InsertRules |-> ir, InsertAfterRules |-> iar,
     PrependChildRules |-> pcr, ValueRules |-> vr, WrapRules |-> wr,
     CdataRules |-> cr, RawTags |-> rt, Counters |-> CounterConfig]

NoRules == Cfg(<<>>, <<>>, <<>>, <<>>, <<>>, <<>>, <<>>, <<>>)

\* the configurations of Spec: renaming, insertion and wrapping.  A rule
\* applies to the elements of one name, so each configuration holds elements
\* with and without each kind of rule.
ConfigsStructure ==
    { NoRules,
      Cfg(<<NR("a", "b")>>, BeforeB, AfterA, PrependB, <<>>, WrapB, <<>>, <<>>),
      Cfg(<<NR("a", "c"), NR("c", "b")>>, BeforeA, AfterB, PrependC, <<>>,
          WrapTwice, <<>>, <<>>),
      Cfg(<<NR("b", "a"), NR("a", "b"), NR("b", "c")>>, BeforeAB, AfterB, PrependB, <<>>,
          WrapB, <<>>, <<>>),
      Cfg(<<>>, BeforeA, AfterA, <<>>, <<>>, WrapB, <<>>, <<>>),
      Cfg(<<>>, <<>>, AfterB, PrependB, <<>>, <<>>, <<>>, <<>>),
      Cfg(<<>>, BeforeB, <<>>, PrependBad, <<>>, WrapB, <<>>, <<>>),
      Cfg(<<NR("a", "b")>>, BeforeBad, AfterA, <<>>, <<>>, <<>>, <<>>, <<>>),
      Cfg(<<>>, <<>>, AfterBad, <<>>, <<>>, WrapB, <<>>, <<>>) }

\* the configurations of SpecText: the rules on text, and the value rules
\* that buildValueReplaceFunc refuses
ConfigsTextRules ==
    { NoRules,
      Cfg(<<>>, <<>>, <<>>, <<>>, ValueTwo, <<>>, <<>>, <<>>),
      Cfg(<<NR("a", "b")>>, <<>>, <<>>, PrependAB, ValueAB, WrapAB, <<>>, <<>>),
      Cfg(<<>>, <<>>, <<>>, <<>>, ValueTwo, <<>>, CdataSwap, <<"b">>),
      Cfg(<<NR("a", "b")>>, <<>>, <<>>, <<>>, ValuePrepend, WrapB, CdataLt,
          <<"b", "c">>),
      Cfg(<<>>, <<>>, <<>>, <<>>, <<>>, <<>>, CdataSwap, <<"a">>),
      Cfg(<<NR("a", "c")>>, <<>>, <<>>, <<>>, ValueA, <<>>, CdataLt, <<"a">>),
      Cfg(<<>>, <<>>, <<>>, <<>>, <<>>, <<>>, CdataEnd, <<"a", "b">>),
      Cfg(<<NR("b", "c")>>, BeforeRich, AfterRich, PrependRich, ValueAB, WrapAB,
          <<>>, <<"b">>) }
    \cup { Cfg(<<>>, <<>>, <<>>, <<>>, vr, <<>>, <<>>, <<>>) : vr \in ValueBadLists }

\* what the decoder can deliver
Texts == { <<"x", "y">>, <<" ", "\n">> }
\* <a>, <b> and a <b> with the attribute values "v", ", ""v"", "", v, "v, v"
\* and the empty one (the quotes are characters of the values)
StartTokens ==
    { StartElement("a", <<>>),
      StartElement("b", <<>>),
      StartElement("b", <<Attr("k", <<"\"", "v", "\"">>),
                          Attr("m", <<"\"">>),
                          Attr("n", <<"\"", "\"", "v", "\"", "\"">>),
                          Attr("e", <<"\"", "\"">>),
                          Attr("u", <<"v">>),
                          Attr("l", <<"\"", "v">>),
                          Attr("t", <<"v", "\"">>),
                          Attr("z", <<>>)>>) }

(***************************************************************************)
(* State.                                                                  *)
(***************************************************************************)
VARIABLES
    config,             \* the Config read from the rule file
    pc,                 \* "build", "run", "done" (Run returned nil), "failed"
    decoder,            \* the decoder's stack of open input tag names
    encoder,            \* [tags, buf]: the encoder's open tags and its buffer
    writer,             \* what has reached the crlfWriter, in order
    nameRules, insertRules, insertAfterRules, prependChildRules,
    valueRules, wrapRuleMap, cdataRules, rawTagMap,
    counters,           \* counter name -> current
    elementStack,       \* the processor's stack of pushed start elements
    inp,                \* log of the tokens Run has received (of the calls
                        \* of Write when the crlfWriter is run on its own)
    out,                \* log of what the handlers emitted
    files,              \* [input, output]: the input file has been opened,
                        \* the output file has been created (truncated)
    err                 \* the error runTransform ends with, NoError for nil

vars == <<config, pc, decoder, encoder, writer, nameRules, insertRules,
          insertAfterRules, prependChildRules, valueRules, wrapRuleMap,
          cdataRules, rawTagMap, counters, elementStack, inp, out, files, err>>

rules == <<config, nameRules, insertRules, insertAfterRules, prependChildRules,
           valueRules, wrapRuleMap, cdataRules, rawTagMap>>

InitWith(configs) ==
    /\ config \in configs
    /\ pc = "build"
    /\ decoder = <<>>
    /\ encoder = [tags |-> <<>>, buf |-> <<>>]
    /\ writer = <<>>
    /\ nameRules = <<>>
    /\ insertRules = <<>>
    /\ insertAfterRules = <<>>
    /\ prependChildRules = <<>>
    /\ valueRules = <<>>
    /\ wrapRuleMap = <<>>
    /\ cdataRules = <<>>
    /\ rawTagMap = {}
    /\ counters = <<>>
    /\ elementStack = <<>>
    /\ inp = <<>>
    /\ out = <<>>
    /\ files = [input |-> FALSE, output |-> FALSE]
    /\ err = NoError

(***************************************************************************)
(* runTransform up to newProcessor: build the runtime rules.               *)
(***************************************************************************)
\* counters[r.Counter]: the pointer, or nil when the map has no such key
CounterRef(cfgCounters, name) ==
    IF name \in DOMAIN cfgCounters THEN name ELSE Nil

BuildInsertRules(cfgRules, cfgCounters) ==
    [i \in 1..Len(cfgRules) |->
        [TargetTag |-> cfgRules[i].Target,
         XMLTemplate |-> cfgRules[i].Template,
         Counter |-> CounterRef(cfgCounters, cfgRules[i].Counter)]]

BuildNameRules(cfgRules) ==
    [i \in 1..Len(cfgRules) |->
        [OldName |-> cfgRules[i].Old, NewName |-> cfgRules[i].New]]

BuildValueRules(cfgRules) ==
    [i \in 1..Len(cfgRules) |->
        [TargetTag |-> cfgRules[i].Target,
         ReplacementFunc |-> buildValueReplaceFunc(cfgRules[i]).fn]]

ValueRulesFail(cfgRules) ==
    \E i \in 1..Len(cfgRules) : buildValueReplaceFunc(cfgRules[i]).err

\* the loop returns the error of the first rule that buildValueReplaceFunc
\* refuses
FirstRefused(cfgRules) ==
    CHOOSE i \in 1..Len(cfgRules) :
        /\ buildValueReplaceFunc(cfgRules[i]).err
        /\ \A j \in 1..(i - 1) : ~buildValueReplaceFunc(cfgRules[j]).err

\* a map that would keep the wrapper of the first rule of a target
RECURSIVE BuildWrapMapFirstWins(_, _)
BuildWrapMapFirstWins(wrapRules, m) ==
    IF wrapRules = <<>> THEN m
    ELSE LET r == Head(wrapRules)
             m2 == [t \in DOMAIN m \cup {r.Target} |->
                       IF t \in DOMAIN m THEN m[t] ELSE r.Wrapper]
         IN  BuildWrapMapFirstWins(Tail(wrapRules), m2)

\* newProcessor: wrapMap[rule.TargetTag] = rule.WrapperTag, in list order
RECURSIVE BuildWrapMap(_, _)
BuildWrapMap(wrapRules, m) ==
    IF wrapRules = <<>> THEN m
    ELSE LET r == Head(wrapRules)
             m2 == [t \in DOMAIN m \cup {r.Target} |->
                       IF t = r.Target THEN r.Wrapper ELSE m[t]]
         IN  BuildWrapMap(Tail(wrapRules), m2)

EmptyMap == [t \in {} |-> ""]

RunTransformBuild ==
    /\ pc = "build"
    /\ IF ValueRulesFail(config.ValueRules)
       THEN /\ pc' = "failed"
            /\ err' = buildValueReplaceFunc(
                          config.ValueRules[FirstRefused(config.ValueRules)]).error
            /\ UNCHANGED <<nameRules, insertRules, insertAfterRules,
                           prependChildRules, valueRules, wrapRuleMap,
                           cdataRules, rawTagMap, counters>>
       ELSE /\ pc' = "open"
            /\ err' = err
            /\ counters' = [c \in DOMAIN config.Counters |-> config.Counters[c]]
            /\ nameRules' = BuildNameRules(config.NameRules)
            /\ insertRules' = BuildInsertRules(config.InsertRules, config.Counters)
            /\ insertAfterRules' =
                   BuildInsertRules(config.InsertAfterRules, config.Counters)
            /\ prependChildRules' =
                   BuildInsertRules(config.PrependChildRules, config.Counters)
            /\ valueRules' = BuildValueRules(config.ValueRules)
            /\ wrapRuleMap' = BuildWrapMap(config.WrapRules, EmptyMap)
            /\ cdataRules' = config.CdataRules
            /\ rawTagMap' = Range(config.RawTags)
    /\ UNCHANGED <<config, decoder, encoder, writer, elementStack, inp, out,
                   files>>

\* runTransform, the files: os.Open of the input, then os.Create of the
\* output; either can fail, and Create comes only after a successful Open
OpenFiles ==
    /\ pc = "open"
    /\ \/ /\ files' = [input |-> TRUE, output |-> TRUE]
          /\ pc' = "run"
          /\ err' = err
       \/ /\ files' = files
          /\ pc' = "failed"
          /\ err' = Error("error opening input file '%s': %w", "inputFilepath")
       \/ /\ files' = [input |-> TRUE, output |-> FALSE]
          /\ pc' = "failed"
          /\ err' = Error("error creating output file '%s': %w", "outputFilepath")
    /\ UNCHANGED <<rules, decoder, encoder, writer, counters, elementStack,
                   inp, out>>

(***************************************************************************)
(* processor.Run: one iteration of the loop per action.                    *)
(***************************************************************************)
St == [encoder |-> encoder, writer |-> writer, counters |-> counters,
       out |-> out, err |-> FALSE, error |-> NoError]

\* the log entry of the token being handled: the token, whether its handler
\* returned an error, the stack depth and the name on top of the stack when
\* it arrived, and the place in out where its output begins
Event(t, failed) ==
    [tok |-> t, failed |-> failed, depth |-> Len(elementStack),
     ctx |-> IF elementStack = <<>> THEN "" ELSE Last(elementStack).name,
     first |-> Len(out) + 1]

\* "if err := handler(elem); err != nil { return err }"
AfterHandlerContinues(failed) == "run"
AfterHandler(failed) == IF failed THEN "failed" ELSE "run"

Commit(st, t) ==
    /\ encoder' = st.encoder
    /\ writer' = st.writer
    /\ counters' = st.counters
    /\ out' = st.out
    /\ inp' = Append(inp, Event(t, st.err))
    /\ pc' = AfterHandler(st.err)
    /\ err' = st.error
    /\ files' = files

NonEndCount == Cardinality({i \in 1..Len(inp) : inp[i].tok.kind # "EndElement"})
MoreInput == pc = "run" /\ NonEndCount < MaxEvents

\* handleStartElement
StartResult(se) ==
    LET processedSE == [se EXCEPT !.name = ApplyNameRules(se.name, nameRules),
                                  !.attr = SanitizeAttrs(se.attr)]
        st1 == InsertLoop(St, insertRules, 1, BeforeKey(se, processedSE), "before")
        st2 == Emit(st1, processedSE, "real", 0)
        st3 == WrapperStart(st2, wrapRuleMap, WrapKey(se, processedSE))
        st4 == InsertLoop(st3, prependChildRules, 1,
                          PrependKey(se, processedSE), "prepend")
    IN  [st |-> st4, pushed |-> ~st2.err, processedSE |-> processedSE]

HandleStartElement ==
    /\ MoreInput
    /\ \E se \in StartTokens :
         LET r == StartResult(se)
         IN  /\ decoder' = Append(decoder, se.name)
             /\ elementStack' = IF r.pushed
                                THEN StackPush(elementStack,
                                               StackEntry(se, r.processedSE))
                                ELSE elementStack
             /\ Commit(r.st, se)
    /\ UNCHANGED rules

\* handleCharData
IsRaw == elementStack # <<>> /\ Last(elementStack).name \in rawTagMap

RECURSIVE LastValueRule(_, _, _)
LastValueRule(vrules, i, name) ==
    IF i > Len(vrules) THEN 0
    ELSE LET later == LastValueRule(vrules, i + 1, name)
         IN  IF later > 0 THEN later
             ELSE IF name = vrules[i].TargetTag THEN i ELSE 0

RECURSIVE FirstValueRule(_, _, _)
FirstValueRule(vrules, i, name) ==
    IF i > Len(vrules) THEN 0
    ELSE IF name = vrules[i].TargetTag THEN i
    ELSE FirstValueRule(vrules, i + 1, name)

CharDataResult(cd) ==
    IF IsWhitespaceOnly(cd.data) THEN St
    ELSE IF IsRaw
    THEN LET modifiedText == ApplyCdataRules(cd.data, cdataRules)
             st1 == FlushBeforeRaw(St)
             st2 == WriteString(st1, CdataOpen)
             st3 == WriteString(st2, modifiedText)
         IN  WriteString(st3, CdataClose)
    ELSE LET i == IF elementStack = <<>> THEN 0
                  ELSE FirstValueRule(valueRules, 1, Last(elementStack).name)
         IN  IF i > 0
             THEN Emit(St, CharData(ReplacementFunc(valueRules[i].ReplacementFunc,
                                                    cd.data)), "real", i)
             ELSE Emit(St, cd, "real", 0)

HandleCharData ==
    /\ MoreInput
    /\ \E d \in Texts :
         Commit(CharDataResult(CharData(d)), CharData(d))
    /\ UNCHANGED <<rules, decoder, elementStack>>

\* handleEndElement; the decoder only delivers the end tag of its innermost
\* open element
EmptyStackIgnored(st) == st
EmptyStack(st) ==
    [st EXCEPT !.err = TRUE, !.error = Error("invalid XML structure", "")]

EndResult(ee) ==
    IF elementStack = <<>>
    THEN [st |-> EmptyStack(St), stack |-> elementStack]
    ELSE LET lastStartedElem == Last(elementStack)
             st1 == WrapperEnd(St, wrapRuleMap, lastStartedElem.name)
             st2 == RealEnd(st1, lastStartedElem, ee)
             st3 == InsertLoop(st2, insertAfterRules, 1,
                               AfterKey(lastStartedElem, ee), "after")
         IN  [st |-> st3, stack |-> StackPop(elementStack)]

HandleEndElement ==
    /\ pc = "run"
    /\ decoder # <<>>
    /\ LET ee == EndElement(Last(decoder))
           r == EndResult(ee)
       IN  /\ decoder' = Front(decoder)
           /\ elementStack' = r.stack
           /\ Commit(r.st, ee)
    /\ UNCHANGED rules

\* the default case of the switch: comments, processing instructions
HandleOther ==
    /\ MoreInput
    /\ Commit(Emit(St, Comment, "real", 0), Comment)
    /\ UNCHANGED <<rules, decoder, elementStack>>

\* decoder.Token() returns an error other than io.EOF
TokenError ==
    /\ pc = "run"
    /\ pc' = "failed"
    /\ err' = Error("failed to get token: %w", "xml: Token")
    /\ UNCHANGED <<rules, decoder, encoder, writer, counters, elementStack,
                   inp, out, files>>

\* io.EOF: leave the loop and flush; the decoder reports the end of the
\* input only when no element is open
Finish ==
    /\ pc = "run"
    /\ decoder = <<>>
    /\ pc' = "done"
    /\ writer' = Flush(St).writer
    /\ encoder' = Flush(St).encoder
    /\ UNCHANGED <<rules, decoder, counters, elementStack, inp, out, files, err>>

Next ==
    \/ RunTransformBuild
    \/ OpenFiles
    \/ Finish
    \/ TokenError
    \/ HandleStartElement
    \/ HandleCharData
    \/ HandleEndElement
    \/ HandleOther

Init == InitWith(ConfigsStructure)
InitText == InitWith(ConfigsTextRules)

Spec == Init /\ [][Next]_vars
SpecText == InitText /\ [][Next]_vars

\* Run is one sequential loop and runTransform a sequence of calls: a step
\* that can be taken is taken
SpecLive == Init /\ [][Next]_vars /\ WF_vars(Next)

(***************************************************************************)
(* The handlers called one by one, as a caller inside the package can call *)
(* them: the decoder of Run delivers an end tag only for an open element,  *)
(* so handleEndElement meets an empty stack, or an end tag of another      *)
(* name than the open element's, only when it is called directly.  The     *)
(* caller stops at the first error, as Run does.                           *)
(***************************************************************************)
EndNames == {"a", "b"}

ConfigsHandlers ==
    { NoRules,
      Cfg(<<NR("a", "b")>>, BeforeB, AfterA, PrependB, <<>>, WrapB, <<>>, <<>>),
      Cfg(<<>>, <<>>, AfterB, <<>>, <<>>, WrapTwice, <<>>, <<>>) }

CallHandleEndElement ==
    /\ pc = "run"
    /\ \E name \in EndNames :
         LET ee == EndElement(name)
             r == EndResult(ee)
         IN  /\ elementStack' = r.stack
             /\ Commit(r.st, ee)
    /\ decoder' = IF decoder = <<>> THEN decoder ELSE Front(decoder)
    /\ UNCHANGED rules

NextHandlers ==
    \/ RunTransformBuild
    \/ OpenFiles
    \/ HandleStartElement
    \/ HandleCharData
    \/ HandleOther
    \/ CallHandleEndElement

InitHandlers == InitWith(ConfigsHandlers)
SpecHandlers == InitHandlers /\ [][NextHandlers]_vars

(***************************************************************************)
(* The crlfWriter on its own: once runTransform has created the output     *)
(* file and wrapped it (newCRLFWriter), any sequence of byte strings is    *)
(* written to it, as the encoder's buffer and the raw writes do.  out logs *)
(* the strings written, writer what the crlfWriter hands to the file, and  *)
(* inp the calls of Write: the bytes given and the count returned.         *)
(***************************************************************************)
MaxWrites == 2
MaxChunk == 2
ChunkBytes == {"a", "\n", "\r"}
Chunks == UNION {[1..n -> ChunkBytes] : n \in 0..MaxChunk}

CrlfWrite ==
    /\ pc = "run"
    /\ Len(out) < MaxWrites
    /\ \E p \in Chunks :
         LET st == WriteString(St, p)
         IN  /\ writer' = st.writer
             /\ out' = st.out
             /\ inp' = Append(inp, [p |-> p, n |-> Write(p).n])
    /\ UNCHANGED <<rules, pc, decoder, encoder, counters, elementStack,
                   files, err>>

NextCrlf ==
    \/ RunTransformBuild
    \/ OpenFiles
    \/ CrlfWrite

InitCrlf == InitWith({NoRules})
SpecCrlf == InitCrlf /\ [][NextCrlf]_vars

TypeOK ==
    /\ pc \in {"build", "open", "run", "done", "failed"}
    /\ Len(decoder) <= MaxEvents

(***************************************************************************)
(* Reading the logs.                                                       *)
(***************************************************************************)
IsStart(k) == inp[k].tok.kind = "StartElement"
IsEnd(k) == inp[k].tok.kind = "EndElement"
IsText(k) == inp[k].tok.kind = "CharData"

StartsBefore(k) == Cardinality({j \in 1..(k - 1) : IsStart(j)})
EndsBefore(k) == Cardinality({j \in 1..(k - 1) : IsEnd(j)})
\* nesting depth of the input document in front of its k-th token
InputDepth(k) == StartsBefore(k) - EndsBefore(k)

\* the start tag that the end tag at k closes in the input document: going
\* back from k, the first start tag not closed by an end tag in between
RECURSIVE ScanBack(_, _)
ScanBack(j, closed) ==
    IF IsEnd(j) THEN ScanBack(j - 1, closed + 1)
    ELSE IF IsStart(j)
         THEN IF closed = 0 THEN j ELSE ScanBack(j - 1, closed - 1)
    ELSE ScanBack(j - 1, closed)

StartOf(k) == ScanBack(k - 1, 0)

\* positions in out of what the handler of the k-th token emitted
FirstPos(k) == inp[k].first
LastPos(k) == IF k = Len(inp) THEN Len(out) ELSE inp[k + 1].first - 1
PosOf(k) == FirstPos(k)..LastPos(k)
PosRole(k, role) == {p \in PosOf(k) : out[p].role = role}
PosReal(k, kind) == {p \in PosRole(k, "real") : out[p].tok.kind = kind}
IsFragmentRole(role) == role \in {"before", "prepend", "after"}
IsTag(t) == t.kind \in {"StartElement", "EndElement"}

\* the name a start tag gets from the configured rename rules: the NewName of
\* the first rule in declared order whose Old is the name
RenamedBy(cfgNameRules, n) ==
    LET hits == {i \in 1..Len(cfgNameRules) : cfgNameRules[i].Old = n}
    IN  IF hits = {} THEN n
        ELSE cfgNameRules[CHOOSE i \in hits : \A j \in hits : i <= j].New

(***************************************************************************)
(* C1  The emitted start and end tags (real, wrapper and fragment tags     *)
(* together) are properly nested: every emitted end tag names the most     *)
(* recently emitted start tag that is still unclosed, and when Run has     *)
(* returned successfully no emitted start tag is left unclosed.            *)
(***************************************************************************)
RECURSIVE Nest(_, _, _)
Nest(log, i, open) ==
    IF i > Len(log) THEN [ok |-> TRUE, open |-> open]
    ELSE LET t == log[i].tok IN
         IF t.kind = "StartElement" THEN Nest(log, i + 1, Append(open, t.name))
         ELSE IF t.kind = "EndElement"
         THEN IF open # <<>> /\ Last(open) = t.name
              THEN Nest(log, i + 1, Front(open))
              ELSE [ok |-> FALSE, open |-> open]
         ELSE Nest(log, i + 1, open)

C1_ProperlyNested ==
    LET r == Nest(out, 1, <<>>)
    IN  /\ r.ok
        /\ pc = "done" => r.open = <<>>

\* a wrapped element closed inside a wrapped element of the same output name,
\* in a run that spliced a fragment and returned successfully
C1_Witness ==
    /\ pc = "done"
    /\ \E p \in 1..Len(out) : IsFragmentRole(out[p].role) /\ IsTag(out[p].tok)
    /\ \E j \in 1..Len(inp) :
         /\ IsStart(j)
         /\ InputDepth(j) >= 1
         /\ inp[j].ctx \in DOMAIN wrapRuleMap
         /\ PosRole(j, "wrapper") # {}
         /\ \E p \in PosReal(j, "StartElement") : out[p].tok.name = inp[j].ctx

(***************************************************************************)
(* C2  While Run is in its loop and when it has returned successfully, the *)
(* depth of the element stack is the number of StartElement tokens         *)
(* received minus the number of EndElement tokens received; it is zero     *)
(* before the first token and after the last.                              *)
(***************************************************************************)
C2_StackDepth ==
    /\ pc \in {"run", "done"} =>
         Len(elementStack) = StartsBefore(Len(inp) + 1) - EndsBefore(Len(inp) + 1)
    /\ inp = <<>> => elementStack = <<>>
    /\ pc = "done" => elementStack = <<>>

\* text, a comment, a wrapper and a fragment have gone by inside an element
\* that was then closed
C2_Witness ==
    /\ pc = "run"
    /\ elementStack # <<>>
    /\ \E k \in 1..Len(inp) : IsEnd(k)
    /\ \E k \in 1..Len(inp) : inp[k].tok.kind \in {"CharData", "Comment"}
    /\ \E p \in 1..Len(out) : out[p].role = "wrapper"
    /\ \E p \in 1..Len(out) : IsFragmentRole(out[p].role)

(***************************************************************************)
(* C3  The real end tag emitted for an EndElement token carries the name   *)
(* of the real start tag emitted for the start tag it closes, which is the *)
(* renamed name when a rename rule matches the input name; it is exactly   *)
(* one tag, and the name of the input end tag plays no part.               *)
(***************************************************************************)
EndTagRenamed(k) ==
    LET j == StartOf(k)
        m == RenamedBy(config.NameRules, inp[j].tok.name)
    IN  /\ Cardinality(PosReal(k, "EndElement")) = 1
        /\ \A p \in PosReal(k, "EndElement") : out[p].tok.name = m
        /\ \A p \in PosReal(j, "StartElement") : out[p].tok.name = m

\* stated of the token handled last: every prefix of a run is a reachable state
C3_EndTagRenamed ==
    (inp # <<>> /\ IsEnd(Len(inp))) => EndTagRenamed(Len(inp))

\* an element whose name a rule changed has been closed
C3_Witness ==
    \E k \in 1..Len(inp) :
        /\ IsEnd(k)
        /\ \E p \in PosReal(k, "EndElement") : out[p].tok.name # inp[k].tok.name


(***************************************************************************)
(* What the configuration says, read without the built rules.              *)
(***************************************************************************)
WrapTargets == {config.WrapRules[i].Target : i \in 1..Len(config.WrapRules)}
WrappersOf(m) ==
    {config.WrapRules[i].Wrapper :
        i \in {x \in 1..Len(config.WrapRules) : config.WrapRules[x].Target = m}}

ConfigRulesOf(role) ==
    IF role = "before" THEN config.InsertRules
    ELSE IF role = "prepend" THEN config.PrependChildRules
    ELSE config.InsertAfterRules

TemplateTags(tpl) == SelectSeq(tpl, IsTag)

\* the tags emitted for rule i of the given role at positions lo..hi of out
TagsOfRule(lo, hi, role, i) ==
    LET es == SelectSeq(SubSeq(out, lo, hi),
                        LAMBDA e : e.role = role /\ e.rule = i /\ IsTag(e.tok))
    IN  [x \in 1..Len(es) |-> es[x].tok]

\* positions lo..hi of out, emitted for the token at k, are the spliced
\* fragments of the rules of one kind whose Target is key, in declared order
\* and nothing else; all of them when the handler did not fail
SplicedInOrder(k, lo, hi, role, key) ==
    LET cfgRules == ConfigRulesOf(role) IN
    /\ \A p \in lo..hi :
         /\ out[p].role = role
         /\ cfgRules[out[p].rule].Target = key
    /\ \A p \in lo..hi : \A q \in (p + 1)..hi : out[p].rule <= out[q].rule
    /\ ~inp[k].failed =>
         \A i \in 1..Len(cfgRules) :
             cfgRules[i].Target = key =>
                 /\ \E p \in lo..hi : out[p].rule = i
                 /\ TagsOfRule(lo, hi, role, i) = TemplateTags(cfgRules[i].Template)

LastIsStart == inp # <<>> /\ IsStart(Len(inp))
LastIsEnd == inp # <<>> /\ IsEnd(Len(inp))
LastIsText == inp # <<>> /\ IsText(Len(inp))

(***************************************************************************)
(* C4  As claimed: for an element whose output name is a wrap target,      *)
(* nothing but the output of the element's original children lies between *)
(* the wrapper's start tag and end tag, and none of that output lies       *)
(* outside; so the wrapper start tag is the last output of the start       *)
(* handler and the wrapper end tag the first output of the end handler.    *)
(* Stated when the element's end tag has just been handled.                *)
(***************************************************************************)
C4_WrapperEnclosesOnlyChildren ==
    (LastIsEnd /\ inp[Len(inp)].ctx \in WrapTargets) =>
        LET k == Len(inp)
            j == StartOf(k)
        IN  /\ out[LastPos(j)].role = "wrapper"
            /\ out[LastPos(j)].tok.kind = "StartElement"
            /\ FirstPos(k) <= Len(out)
            /\ out[FirstPos(k)].role = "wrapper"
            /\ out[FirstPos(k)].tok.kind = "EndElement"

(***************************************************************************)
(* C4 as amended: the wrapper start tag directly follows the real start    *)
(* tag and the wrapper end tag directly precedes the real end tag; between *)
(* the wrapper's tags lie first the fragments of the prepend-child rules   *)
(* that target the same output name, then the output of the element's      *)
(* original children, all of it and nothing else.                          *)
(***************************************************************************)
C4_WrapperEnclosesPrependAndChildren ==
    (LastIsEnd /\ inp[Len(inp)].ctx \in WrapTargets) =>
        LET k == Len(inp)
            j == StartOf(k)
            m == inp[k].ctx
            ws == CHOOSE p \in PosOf(j) :
                      out[p].role = "real" /\ out[p].tok.kind = "StartElement"
            we == FirstPos(k)
        IN  /\ ws + 1 <= Len(out)
            /\ we + 1 <= Len(out)
            /\ out[ws + 1].role = "wrapper"
            /\ out[ws + 1].tok.kind = "StartElement"
            /\ out[ws + 1].tok.name \in WrappersOf(m)
            /\ \A p \in (ws + 2)..LastPos(j) :
                 /\ out[p].role = "prepend"
                 /\ config.PrependChildRules[out[p].rule].Target = m
            /\ out[we].role = "wrapper"
            /\ out[we].tok = EndElement(out[ws + 1].tok.name)
            /\ out[we + 1].role = "real"
            /\ out[we + 1].tok = EndElement(m)

\* a wrapped element with a prepended fragment and a child has been closed
C4_Witness ==
    /\ LastIsEnd
    /\ inp[Len(inp)].ctx \in WrapTargets
    /\ PosRole(StartOf(Len(inp)), "prepend") # {}
    /\ StartOf(Len(inp)) < Len(inp) - 1

(***************************************************************************)
(* C5  For every configured counter with start value s, the k-th fragment  *)
(* expansion that uses it, counted in output order over the before,        *)
(* prepend-child and after rules naming it, carries s+k, and the counter   *)
(* stands at s plus the number of those expansions; an expansion of a rule *)
(* without a counter, or naming no configured counter, moves none.         *)
(* (Every template of the configurations puts the number in one text       *)
(* token.)                                                                 *)
(***************************************************************************)
UsesOf(c) ==
    SelectSeq(out, LAMBDA e : /\ IsFragmentRole(e.role)
                              /\ e.tok.kind = "CharData"
                              /\ ConfigRulesOf(e.role)[e.rule].Counter = c)

C5_CounterSequence ==
    pc # "build" =>
        \A c \in DOMAIN config.Counters :
            LET uses == UsesOf(c)
                s == config.Counters[c]
            IN  /\ counters[c] = s + Len(uses)
                /\ \A k \in 1..Len(uses) : ToString(s + k) \in Range(uses[k].tok.data)

\* a counter shared by rules of two kinds has been used three times, next to
\* expansions without a counter
C5_Witness ==
    /\ pc # "build"
    /\ \E c \in DOMAIN config.Counters :
         /\ Len(UsesOf(c)) >= 3
         /\ Cardinality({UsesOf(c)[k].role : k \in 1..Len(UsesOf(c))}) >= 2
    /\ \E p \in 1..Len(out) :
         /\ IsFragmentRole(out[p].role)
         /\ ConfigRulesOf(out[p].role)[out[p].rule].Counter \notin DOMAIN config.Counters

(***************************************************************************)
(* C6  On a StartElement token with input name n the output begins with    *)
(* the fragments of the insert-before rules whose Target is n, in declared *)
(* order, and the real start tag follows them directly; a rule whose       *)
(* Target is only the renamed name does not fire.                          *)
(***************************************************************************)
C6_InsertBeforeFirst ==
    LastIsStart =>
        LET k == Len(inp)
            before == PosRole(k, "before")
            hi == FirstPos(k) + Cardinality(before) - 1
        IN  /\ SplicedInOrder(k, FirstPos(k), hi, "before", inp[k].tok.name)
            /\ ~inp[k].failed =>
                 /\ out[hi + 1].role = "real"
                 /\ out[hi + 1].tok.kind = "StartElement"

\* two insert-before rules fired for an element that is renamed to the
\* Target of a third one
C6_Witness ==
    /\ LastIsStart
    /\ ~inp[Len(inp)].failed
    /\ Cardinality({out[p].rule : p \in PosRole(Len(inp), "before")}) >= 2
    /\ \E i \in 1..Len(config.InsertRules) :
         /\ config.InsertRules[i].Target # inp[Len(inp)].tok.name
         /\ config.InsertRules[i].Target =
                RenamedBy(config.NameRules, inp[Len(inp)].tok.name)

(***************************************************************************)
(* C7  On an EndElement token the output is: the wrapper end tag if the    *)
(* popped output name is a wrap target, the real end tag, and then         *)
(* directly the fragments of the insert-after rules whose Target is the    *)
(* name of the input end tag, in declared order, and nothing else.         *)
(***************************************************************************)
C7_EndOrder ==
    LastIsEnd =>
        LET k == Len(inp)
            m == inp[k].ctx
            re == IF m \in WrapTargets THEN FirstPos(k) + 1 ELSE FirstPos(k)
        IN  /\ m \in WrapTargets =>
                 /\ out[FirstPos(k)].role = "wrapper"
                 /\ out[FirstPos(k)].tok.kind = "EndElement"
            /\ out[re].role = "real"
            /\ out[re].tok = EndElement(m)
            /\ SplicedInOrder(k, re + 1, LastPos(k), "after", inp[k].tok.name)

\* a renamed, wrapped element was closed and two insert-after rules fired on
\* its input name, none on its output name
C7_Witness ==
    /\ LastIsEnd
    /\ ~inp[Len(inp)].failed
    /\ inp[Len(inp)].ctx \in WrapTargets
    /\ inp[Len(inp)].ctx # inp[Len(inp)].tok.name
    /\ Cardinality({out[p].rule : p \in PosRole(Len(inp), "after")}) >= 2
    /\ \E i \in 1..Len(config.InsertAfterRules) :
         config.InsertAfterRules[i].Target = inp[Len(inp)].ctx

(***************************************************************************)
(* C8  On a StartElement token with output name m the output after the     *)
(* real start tag is: the wrapper start tag, without attributes, if m is a *)
(* wrap target, then the fragments of the prepend-child rules whose Target *)
(* is m, in declared order, and nothing else; so the fragments come before *)
(* all output of the element's content, which later tokens bring.          *)
(***************************************************************************)
C8_StartOrder ==
    (LastIsStart /\ PosReal(Len(inp), "StartElement") # {}) =>
        LET k == Len(inp)
            rs == CHOOSE p \in PosReal(k, "StartElement") : TRUE
            m == out[rs].tok.name
            ws == IF m \in WrapTargets THEN rs + 1 ELSE rs
        IN  /\ m \in WrapTargets =>
                 /\ out[ws].role = "wrapper"
                 /\ out[ws].tok.kind = "StartElement"
                 /\ out[ws].tok.attr = <<>>
            /\ SplicedInOrder(k, ws + 1, LastPos(k), "prepend", m)

\* a start tag with attributes got a wrapper and a prepended fragment, and a
\* renamed start tag got two
C8_Witness ==
    /\ LastIsStart
    /\ ~inp[Len(inp)].failed
    /\ PosRole(Len(inp), "wrapper") # {}
    /\ \/ /\ inp[Len(inp)].tok.attr # <<>>
          /\ PosRole(Len(inp), "prepend") # {}
       \/ /\ RenamedBy(config.NameRules, inp[Len(inp)].tok.name) # inp[Len(inp)].tok.name
          /\ Cardinality({out[p].rule : p \in PosRole(Len(inp), "prepend")}) >= 2

(***************************************************************************)
(* C9  A text token that is not white space only and whose context (the    *)
(* output name on top of the stack) is not a raw tag is emitted as one     *)
(* text token through the encoder: the transform of the first value rule   *)
(* in declared order whose Target is the context, applied once to the      *)
(* original text, or the original text when no rule matches or the stack   *)
(* is empty.                                                               *)
(***************************************************************************)
NonBlank(k) == \E i \in 1..Len(inp[k].tok.data) : inp[k].tok.data[i] \notin SpaceChars
RawContext(k) == inp[k].depth > 0 /\ inp[k].ctx \in Range(config.RawTags)

ValueHits(ctx) ==
    {i \in 1..Len(config.ValueRules) : config.ValueRules[i].Target = ctx}

ExpectedValue(k) ==
    LET text == inp[k].tok.data
        hits == IF inp[k].depth = 0 THEN {} ELSE ValueHits(inp[k].ctx)
    IN  IF hits = {} THEN text
        ELSE LET r == config.ValueRules[CHOOSE i \in hits : \A j \in hits : i <= j]
             IN  IF r.Type = "prepend" THEN r.Params["prefix"].val \o text
                 ELSE text \o r.Params["suffix"].val

C9_FirstValueRule ==
    (LastIsText /\ NonBlank(Len(inp)) /\ ~RawContext(Len(inp))) =>
        LET k == Len(inp) IN
        /\ LastPos(k) = FirstPos(k)
        /\ out[FirstPos(k)].tok.kind = "CharData"
        /\ out[FirstPos(k)].tok.data = ExpectedValue(k)
        /\ pc = "run" => /\ encoder.buf # <<>>
                         /\ Last(encoder.buf) = out[FirstPos(k)].tok

\* text in an element that two value rules target
C9_Witness ==
    /\ LastIsText
    /\ NonBlank(Len(inp))
    /\ ~RawContext(Len(inp))
    /\ inp[Len(inp)].depth > 0
    /\ Cardinality(ValueHits(inp[Len(inp)].ctx)) >= 2
    /\ out[LastPos(Len(inp))].tok.data # inp[Len(inp)].tok.data

(***************************************************************************)
(* C10  A text token that is not white space only and whose context is a   *)
(* raw tag is written as three strings straight to the writer, after the   *)
(* encoder's buffer: "<![CDATA[", the text after every substitution rule   *)
(* has been applied as a replace-all, each to the result of the one        *)
(* before, in declared order, and "]]>".  No value rule is applied and the *)
(* encoder does not see the text.                                          *)
(***************************************************************************)
RECURSIVE CdataChain(_, _)
CdataChain(text, n) ==
    IF n = 0 THEN text
    ELSE ReplaceAll(CdataChain(text, n - 1),
                    config.CdataRules[n].Old, config.CdataRules[n].New)

C10_RawText ==
    (LastIsText /\ NonBlank(Len(inp)) /\ RawContext(Len(inp))) =>
        LET k == Len(inp)
            f == FirstPos(k)
            modified == CdataChain(inp[k].tok.data, Len(config.CdataRules))
            n == Len(writer)
        IN  /\ LastPos(k) = f + 2
            /\ out[f].tok = RawWrite(<<"<", "!", "[", "C", "D", "A", "T", "A", "[">>)
            /\ out[f + 1].tok = RawWrite(modified)
            /\ out[f + 2].tok = RawWrite(<<"]", "]", ">">>)
            /\ encoder.buf = <<>>
            /\ n >= 3
            /\ <<writer[n - 2], writer[n - 1], writer[n]>> =
                   <<out[f].tok, out[f + 1].tok, out[f + 2].tok>>

\* raw text that two substitution rules change one after the other, in an
\* element that a value rule targets as well
C10_Witness ==
    /\ LastIsText
    /\ NonBlank(Len(inp))
    /\ RawContext(Len(inp))
    /\ ValueHits(inp[Len(inp)].ctx) # {}
    /\ Len(config.CdataRules) >= 2
    /\ out[FirstPos(Len(inp)) + 1].tok.data # inp[Len(inp)].tok.data
    /\ out[FirstPos(Len(inp)) + 1].tok.data #
           ReplaceAll(inp[Len(inp)].tok.data,
                      config.CdataRules[1].Old, config.CdataRules[1].New)

(***************************************************************************)
(* C11  A text token that is white space only produces no output and       *)
(* leaves the element stack, every counter, the encoder and the writer as  *)
(* they were, whatever the context: also in a raw tag and in an element    *)
(* that a value rule targets.                                              *)
(***************************************************************************)
Blank(data) == \A i \in 1..Len(data) : data[i] \in {" ", "\t", "\n", "\r"}

C11_WhitespaceDiscarded ==
    [][(/\ Len(inp') = Len(inp) + 1
        /\ inp'[Len(inp')].tok.kind = "CharData"
        /\ Blank(inp'[Len(inp')].tok.data))
       => /\ out' = out
          /\ elementStack' = elementStack
          /\ counters' = counters
          /\ encoder' = encoder
          /\ writer' = writer
          /\ ~inp'[Len(inp')].failed
          /\ pc' = "run"]_vars

\* white space in a raw tag that a value rule targets as well, after output
C11_Witness ==
    /\ LastIsText
    /\ Blank(inp[Len(inp)].tok.data)
    /\ RawContext(Len(inp))
    /\ ValueHits(inp[Len(inp)].ctx) # {}
    /\ out # <<>>
    /\ LastPos(Len(inp)) < FirstPos(Len(inp))

(***************************************************************************)
(* C12  A start tag is renamed by at most one rename rule: the first rule  *)
(* in declared order whose Old is the input name.  The new name is not     *)
(* looked up again, so with a->b and b->c an input a comes out as b; with  *)
(* no matching rule the name is unchanged.                                 *)
(***************************************************************************)
NameHits(n) == {i \in 1..Len(config.NameRules) : config.NameRules[i].Old = n}

C12_SingleRename ==
    LastIsStart =>
        LET k == Len(inp)
            n == inp[k].tok.name
            hits == NameHits(n)
            m == IF hits = {} THEN n
                 ELSE config.NameRules[CHOOSE i \in hits : \A j \in hits : i <= j].New
            reals == PosReal(k, "StartElement")
        IN  /\ Cardinality(reals) <= 1
            /\ ~inp[k].failed => Cardinality(reals) = 1
            /\ \A p \in reals : out[p].tok.name = m
            /\ reals # {} => Last(elementStack).name = m

\* two rules share the Old of the input name, and a third one renames the
\* name the first of them gives
C12_Witness ==
    /\ LastIsStart
    /\ \E i, j \in NameHits(inp[Len(inp)].tok.name) :
          /\ i < j
          /\ config.NameRules[i].New # config.NameRules[j].New
    /\ \E p \in PosReal(Len(inp), "StartElement") :
          /\ out[p].tok.name # inp[Len(inp)].tok.name
          /\ \E r \in NameHits(out[p].tok.name) :
                config.NameRules[r].New # out[p].tok.name

(***************************************************************************)
(* C13  The wrap, prepend-child, value and raw-tag lookups use the output  *)
(* name of the element.  For an element whose input name a is renamed to   *)
(* b # a: at its start tag the wrapper and the prepend-child fragments are *)
(* those of the rules that target b; its text is raw exactly when b is a   *)
(* raw tag and otherwise gets the first value rule that targets b; at its  *)
(* end tag the wrapper is closed exactly when a wrap rule targets b.       *)
(* Rules that target only a do nothing for it.                             *)
(***************************************************************************)
OutputNameOf(j) == RenamedBy(config.NameRules, inp[j].tok.name)
RenamedAt(j) == IsStart(j) /\ OutputNameOf(j) # inp[j].tok.name

ValueFor(m, text) ==
    LET hits == ValueHits(m)
    IN  IF hits = {} THEN text
        ELSE LET r == config.ValueRules[CHOOSE i \in hits : \A j \in hits : i <= j]
             IN  IF r.Type = "prepend" THEN r.Params["prefix"].val \o text
                 ELSE text \o r.Params["suffix"].val

PrependTargets(k) ==
    {config.PrependChildRules[out[p].rule].Target : p \in PosRole(k, "prepend")}

LookupsAtStart(k, m) ==
    /\ \A p \in PosRole(k, "wrapper") : out[p].tok.name \in WrappersOf(m)
    /\ (PosRole(k, "wrapper") # {}) <=>
           (m \in WrapTargets /\ PosReal(k, "StartElement") # {})
    /\ PrependTargets(k) \subseteq {m}
    /\ ~inp[k].failed =>
           \A i \in 1..Len(config.PrependChildRules) :
               config.PrependChildRules[i].Target = m =>
                   \E p \in PosRole(k, "prepend") : out[p].rule = i

LookupsAtText(k, m) ==
    LET f == FirstPos(k) IN
    /\ f <= Len(out)
    /\ (out[f].tok.kind = "RawWrite") <=> (m \in Range(config.RawTags))
    /\ out[f].tok.kind # "RawWrite" =>
           out[f].tok = CharData(ValueFor(m, inp[k].tok.data))

LookupsAtEnd(k, m) ==
    (PosRole(k, "wrapper") # {}) <=> (m \in WrapTargets)

C13_LookupsUseOutputName ==
    inp # <<>> =>
        LET k == Len(inp) IN
        /\ RenamedAt(k) => LookupsAtStart(k, OutputNameOf(k))
        /\ (IsText(k) /\ NonBlank(k) /\ inp[k].depth > 0 /\ RenamedAt(StartOf(k)))
               => LookupsAtText(k, OutputNameOf(StartOf(k)))
        /\ (IsEnd(k) /\ RenamedAt(StartOf(k)))
               => LookupsAtEnd(k, OutputNameOf(StartOf(k)))

\* a renamed element with text has been closed, under a configuration with a
\* wrap, a prepend-child and a value rule on its input name and on its output
\* name
C13_Witness ==
    /\ Len(inp) >= 3
    /\ IsEnd(Len(inp))
    /\ IsText(Len(inp) - 1)
    /\ NonBlank(Len(inp) - 1)
    /\ RenamedAt(Len(inp) - 2)
    /\ LET a == inp[Len(inp) - 2].tok.name
           b == OutputNameOf(Len(inp) - 2)
       IN  /\ {a, b} \subseteq WrapTargets
           /\ ValueHits(a) # {} /\ ValueHits(b) # {}
           /\ \E i, j \in 1..Len(config.PrependChildRules) :
                 /\ config.PrependChildRules[i].Target = a
                 /\ config.PrependChildRules[j].Target = b
           /\ PosRole(Len(inp), "wrapper") # {}
           /\ PosRole(Len(inp) - 2, "prepend") # {}

(***************************************************************************)
(* C14  handleEndElement called while the element stack is empty returns   *)
(* the error "invalid XML structure"; it emits nothing (no end tag, no     *)
(* wrapper end tag, no insert-after fragment), advances no counter and     *)
(* leaves the stack empty.                                                 *)
(***************************************************************************)
C14_EndOnEmptyStack ==
    [][(/\ Len(inp') = Len(inp) + 1
        /\ inp'[Len(inp')].tok.kind = "EndElement"
        /\ elementStack = <<>>)
       => /\ inp'[Len(inp')].failed
          /\ err' = [msg |-> "invalid XML structure", arg |-> ""]
          /\ pc' = "failed"
          /\ out' = out
          /\ counters' = counters
          /\ elementStack' = <<>>
          /\ encoder' = encoder
          /\ writer' = writer]_vars

\* an end tag on the empty stack, after an element has been written and
\* closed, whose name an insert-after rule with a counter targets
C14_Witness ==
    /\ LastIsEnd
    /\ inp[Len(inp)].depth = 0
    /\ inp[Len(inp)].failed
    /\ out # <<>>
    /\ \E i \in 1..Len(config.InsertAfterRules) :
          /\ config.InsertAfterRules[i].Target = inp[Len(inp)].tok.name
          /\ config.InsertAfterRules[i].Counter \in DOMAIN config.Counters
    /\ WrapTargets # {}

(***************************************************************************)
(* C15  Run stops at the first fatal error.  A handler that fails (a       *)
(* fragment that does not tokenize, an end tag on the empty stack, an      *)
(* encoder error) or a tokenizer error other than the end of the stream    *)
(* makes Run return an error: the failed token is the last one Run         *)
(* receives and nothing is emitted afterwards.  Run completes successfully *)
(* only from the end of the stream, with no token failed.                  *)
(***************************************************************************)
C15_StopsAtFirstError ==
    /\ [](\A k \in 1..Len(inp) :
              inp[k].failed => (k = Len(inp) /\ pc = "failed"))
    /\ [](pc = "failed" => err # [msg |-> "", arg |-> ""])
    /\ [](pc = "done" => err = [msg |-> "", arg |-> ""])
    /\ [][/\ pc \notin {"failed", "done"}
          /\ pc' = "done" =>
                (pc = "run" /\ decoder = <<>> /\ inp' = inp /\ out' = out)
          /\ (pc = "run" /\ pc' = "failed" /\ inp' = inp) =>
                (/\ err'.msg = "failed to get token: %w"
                 /\ out' = out /\ writer' = writer /\ counters' = counters)
         ]_vars

\* Run has failed in a fragment after it had written output and while the
\* input had more to give
C15_Witness ==
    /\ pc = "failed"
    /\ inp # <<>>
    /\ inp[Len(inp)].failed
    /\ err.msg = "xml: Token"
    /\ NonEndCount < MaxEvents
    /\ Len(inp) >= 2
    /\ LastPos(Len(inp)) >= FirstPos(Len(inp))

(***************************************************************************)
(* C16  An insert rule (before, after or prepend-child) that names a       *)
(* counter missing from the configuration's counter mapping makes the      *)
(* construction of the rules fail: runTransform ends with an error before  *)
(* a file is opened and before a token is processed.                       *)
(***************************************************************************)
NamesUndefinedCounter(cfgRules) ==
    \E i \in 1..Len(cfgRules) :
        /\ cfgRules[i].Counter # ""
        /\ cfgRules[i].Counter \notin DOMAIN config.Counters

UndefinedCounterNamed ==
    \/ NamesUndefinedCounter(config.InsertRules)
    \/ NamesUndefinedCounter(config.InsertAfterRules)
    \/ NamesUndefinedCounter(config.PrependChildRules)

C16_UndefinedCounterRejected ==
    UndefinedCounterNamed =>
        /\ pc \in {"build", "failed"}
        /\ files = [input |-> FALSE, output |-> FALSE]
        /\ inp = <<>>

\* what the code does instead: the rule is built with a nil counter and its
\* template is spliced as it is, the verb included
C16_AcceptedSilently ==
    \E p \in 1..Len(out) :
        /\ out[p].role = "prepend"
        /\ config.PrependChildRules[out[p].rule].Counter # ""
        /\ config.PrependChildRules[out[p].rule].Counter \notin DOMAIN config.Counters
        /\ prependChildRules[out[p].rule].Counter = Nil

(***************************************************************************)
(* C17  A value rule of an unknown kind, or a prepend/append value rule    *)
(* whose prefix/suffix is missing or not a string, makes runTransform fail *)
(* while it builds the rules: before the input file is opened, before the  *)
(* output file is created and before a token is processed; and the error   *)
(* identifies the offending rule.                                          *)
(***************************************************************************)
Refused(rule) ==
    ~ \/ /\ rule.Type = "prepend"
         /\ "prefix" \in DOMAIN rule.Params
         /\ rule.Params["prefix"].isString
      \/ /\ rule.Type = "append"
         /\ "suffix" \in DOMAIN rule.Params
         /\ rule.Params["suffix"].isString

RefusedRules == {i \in 1..Len(config.ValueRules) : Refused(config.ValueRules[i])}

\* the rules of the configuration that the text of the error fits: the text
\* carries the kind of the rule and nothing else of it
RulesFitting(e) ==
    LET kind == IF e.msg = "invalid or missing 'prefix' for prepend rule"
                THEN "prepend"
                ELSE IF e.msg = "invalid or missing 'suffix' for append rule"
                THEN "append"
                ELSE e.arg
    IN  {i \in 1..Len(config.ValueRules) : config.ValueRules[i].Type = kind}

\* the part on the order of the steps
C17_FailsBeforeFiles ==
    RefusedRules # {} =>
        /\ pc \in {"build", "failed"}
        /\ files = [input |-> FALSE, output |-> FALSE]
        /\ inp = <<>> /\ out = <<>> /\ writer = <<>>
        /\ pc = "failed" => err.msg # ""

C17_ValueRuleFailFast ==
    /\ C17_FailsBeforeFiles
    /\ (RefusedRules # {} /\ pc = "failed") =>
           RulesFitting(err) = {CHOOSE i \in RefusedRules :
                                    \A j \in RefusedRules : i <= j}

\* the build has failed on the second of two prepend rules
C17_Witness ==
    /\ pc = "failed"
    /\ RefusedRules = {2}
    /\ config.ValueRules[1].Type = config.ValueRules[2].Type
    /\ files = [input |-> FALSE, output |-> FALSE]

(***************************************************************************)
(* C18  For every sequence of writes to the crlfWriter, the bytes handed   *)
(* to the file are the written bytes, in order, with every line feed       *)
(* replaced by carriage return and line feed and every other byte as it    *)
(* was; so every line feed in the file directly follows a carriage return, *)
(* however the content is split across the writes.                         *)
(***************************************************************************)
RECURSIVE LfToCrLf(_)
LfToCrLf(bytes) ==
    IF bytes = <<>> THEN <<>>
    ELSE (IF Head(bytes) = "\n" THEN <<"\r", "\n">> ELSE <<Head(bytes)>>)
         \o LfToCrLf(Tail(bytes))

WrittenBytes == SeqCat([i \in 1..Len(out) |-> out[i].tok.data])
FileBytes == SeqCat([i \in 1..Len(writer) |-> writer[i].data])

C18_CrlfNormalized ==
    /\ FileBytes = LfToCrLf(WrittenBytes)
    /\ \A i \in 1..Len(FileBytes) :
          FileBytes[i] = "\n" => (i > 1 /\ FileBytes[i - 1] = "\r")

\* a line feed that opens a write, after a write that ended in a carriage
\* return
C18_Witness ==
    /\ Len(out) >= 2
    /\ out[1].tok.data # <<>>
    /\ out[1].tok.data[Len(out[1].tok.data)] = "\r"
    /\ out[2].tok.data # <<>>
    /\ out[2].tok.data[1] = "\n"
    /\ Len(FileBytes) > Len(WrittenBytes)

(***************************************************************************)
(* C19  When Run has returned successfully, everything emitted during the  *)
(* run, through the encoder or by the raw writes, has reached the writer,  *)
(* in the order of emission, and nothing is left in the encoder's buffer.  *)
(***************************************************************************)
C19_AllFlushed ==
    pc = "done" =>
        /\ encoder.buf = <<>>
        /\ Len(writer) = Len(out)
        /\ \A i \in 1..Len(out) :
              writer[i] = IF out[i].tok.kind = "RawWrite"
                          THEN [out[i].tok EXCEPT !.data = LfToCrLf(@)]
                          ELSE out[i].tok

\* a successful run with a raw block and encoded tokens before and after it
C19_Witness ==
    /\ pc = "done"
    /\ \E i \in 2..(Len(out) - 1) :
          /\ out[i].tok.kind = "RawWrite"
          /\ out[1].tok.kind = "StartElement"
          /\ out[Len(out)].tok.kind = "EndElement"

(***************************************************************************)
(* C20  With an empty rule set the output is the input without its         *)
(* white-space-only text: the same start and end tags with the same names  *)
(* in the same order (so the same nesting), the same other text, nothing   *)
(* added and nothing else dropped.                                         *)
(***************************************************************************)
EmptyRuleSet ==
    /\ config.NameRules = <<>>
    /\ config.InsertRules = <<>>
    /\ config.InsertAfterRules = <<>>
    /\ config.PrependChildRules = <<>>
    /\ config.ValueRules = <<>>
    /\ config.WrapRules = <<>>
    /\ config.CdataRules = <<>>
    /\ config.RawTags = <<>>

Shape(t) == [kind |-> t.kind, name |-> t.name, data |-> t.data]

RECURSIVE KeptInput(_)
KeptInput(k) ==
    IF k = 0 THEN <<>>
    ELSE KeptInput(k - 1)
         \o (IF IsText(k) /\ Blank(inp[k].tok.data) THEN <<>>
             ELSE <<Shape(inp[k].tok)>>)

C20_EmptyRuleSetIdentity ==
    EmptyRuleSet =>
        /\ \A k \in 1..Len(inp) : ~inp[k].failed
        /\ [i \in 1..Len(out) |-> Shape(out[i].tok)] = KeptInput(Len(inp))

\* a complete document with a nested element, text and white space
C20_Witness ==
    /\ EmptyRuleSet
    /\ pc = "done"
    /\ \E k \in 1..Len(inp) : IsText(k) /\ Blank(inp[k].tok.data)
    /\ \E k \in 1..Len(inp) : IsStart(k) /\ inp[k].depth > 0
    /\ Len(out) = Len(inp) - 1

(***************************************************************************)
(* Reading the written document again, as the decoder of a following run   *)
(* does, for what decides its tags.  Text that went through the encoder is *)
(* escaped, so it holds no "<" and gives no tag.  A raw block is a CDATA   *)
(* section that ends at the first "]]>" after its opener; when that is not *)
(* the block's own terminator, the rest of the block is read as markup and *)
(* text, and the terminator left over is a syntax error ("unescaped ]]>    *)
(* not in CDATA section").                                                 *)
(***************************************************************************)
Terminator == <<"]", "]", ">">>

TerminatorAt(bytes, i) ==
    i + 2 <= Len(bytes) /\ SubSeq(bytes, i, i + 2) = Terminator

\* the bytes of the raw block written for the text token at k
BlockOf(k) ==
    out[FirstPos(k)].tok.data \o out[FirstPos(k) + 1].tok.data
        \o out[FirstPos(k) + 2].tok.data

RawEvents ==
    {k \in 1..Len(inp) : /\ IsText(k)
                         /\ ~inp[k].failed
                         /\ LastPos(k) = FirstPos(k) + 2
                         /\ out[FirstPos(k)].tok.kind = "RawWrite"}

\* the CDATA section of the block ends before the block does
ClosesEarly(k) ==
    \E i \in 1..(Len(BlockOf(k)) - 3) : TerminatorAt(BlockOf(k), i)

EscapeChar(c) ==
    IF c = "<" THEN <<"&", "l", "t", ";">>
    ELSE IF c = ">" THEN <<"&", "g", "t", ";">>
    ELSE IF c = "&" THEN <<"&", "a", "m", "p", ";">>
    ELSE IF c = "\"" THEN <<"&", "#", "3", "4", ";">>
    ELSE <<c>>

EscapeText(data) == SeqCat([i \in 1..Len(data) |-> EscapeChar(data[i])])

EncodedTextHoldsTag ==
    \E p \in 1..Len(out) :
        /\ out[p].tok.kind = "CharData"
        /\ "<" \in Range(EscapeText(out[p].tok.data))

TagNames(log) ==
    LET tags == SelectSeq(log, LAMBDA e : IsTag(e.tok))
    IN  [i \in 1..Len(tags) |-> <<tags[i].tok.kind, tags[i].tok.name>>]

(***************************************************************************)
(* C21  A run over a document (the output of an earlier run) with a rule   *)
(* set without rename, insert and wrap rules writes a document with the    *)
(* same tags: read again, the output is well formed and has the tag names  *)
(* and the nesting of the input.                                           *)
(***************************************************************************)
PassthroughRules ==
    /\ config.NameRules = <<>>
    /\ config.InsertRules = <<>>
    /\ config.InsertAfterRules = <<>>
    /\ config.PrependChildRules = <<>>
    /\ config.WrapRules = <<>>

\* the part on the tokens handed to the encoder
C21_SameTagsEmitted ==
    (PassthroughRules /\ pc = "done") =>
        /\ TagNames(out) = TagNames(inp)
        /\ ~EncodedTextHoldsTag

C21_SecondRunSameTree ==
    (PassthroughRules /\ pc = "done") =>
        /\ TagNames(out) = TagNames(inp)
        /\ ~EncodedTextHoldsTag
        /\ \A k \in RawEvents : ~ClosesEarly(k)

\* a complete run without rename, insert and wrap rules whose output has a
\* raw block that ends early
C21_Witness ==
    /\ PassthroughRules
    /\ pc = "done"
    /\ \E k \in RawEvents : ClosesEarly(k)

(***************************************************************************)
(* C22  What reaches the writer is in the order of emission.  The encoder  *)
(* is flushed before a raw block is written, so the block comes after all  *)
(* output of the earlier tokens, the enclosing start tag and a wrapper     *)
(* start tag included, and before all output of the later tokens: at every *)
(* moment the writer's content followed by the encoder's buffer is the     *)
(* emitted output in its order.                                            *)
(***************************************************************************)
AtSink(e) ==
    IF e.tok.kind = "RawWrite" THEN [e.tok EXCEPT !.data = LfToCrLf(@)]
    ELSE e.tok

C22_SinkOrder ==
    /\ writer \o encoder.buf = [i \in 1..Len(out) |-> AtSink(out[i])]
    /\ \A k \in RawEvents :
          /\ Len(writer) >= FirstPos(k) + 2
          /\ \A p \in PosOf(k) : writer[p].kind = "RawWrite"

\* a raw block in the writer between a wrapper start tag written before it
\* and an end tag emitted after it that the encoder still holds
C22_Witness ==
    /\ pc = "run"
    /\ encoder.buf # <<>>
    /\ \E k \in RawEvents :
          /\ FirstPos(k) > 2
          /\ out[FirstPos(k) - 1].role = "wrapper"
          /\ Len(writer) = FirstPos(k) + 2
          /\ Len(out) > Len(writer)

(***************************************************************************)
(* C23  The literal block written for raw text is escape-safe: it holds    *)
(* the CDATA terminator once only, as its last three characters, whatever  *)
(* the text and the substitution rules are.                                *)
(***************************************************************************)
TerminatorsIn(bytes) == {i \in 1..Len(bytes) : TerminatorAt(bytes, i)}

C23_TerminatorOnlyAtEnd ==
    \A k \in RawEvents :
        TerminatorsIn(BlockOf(k)) = {Len(BlockOf(k)) - 2}

\* a block whose substituted text carries the terminator: the block ends
\* after the text's own terminator and the closing one is left outside
C23_Witness ==
    \E k \in RawEvents :
        /\ Cardinality(TerminatorsIn(BlockOf(k))) > 1
        /\ TerminatorsIn(out[FirstPos(k) + 1].tok.data) # {}

(***************************************************************************)
(* C24  Attribute sanitation.  The real start tag emitted for an input     *)
(* start tag has the attributes of the input tag, with the same names in   *)
(* the same order; a value of at least two characters that begins and ends *)
(* with a double quote is emitted without its first and its last           *)
(* character, and every other value is emitted as it is.  No rule of the   *)
(* configuration has a part in it.                                         *)
(***************************************************************************)
Quote == "\""
Quoted(v) == Len(v) >= 2 /\ v[1] = Quote /\ v[Len(v)] = Quote
Inner(v) == [i \in 1..(Len(v) - 2) |-> v[i + 1]]

C24_AttributeSanitation ==
    LastIsStart =>
        \A p \in PosReal(Len(inp), "StartElement") :
            LET given == inp[Len(inp)].tok.attr
                sent == out[p].tok.attr
            IN  /\ Len(sent) = Len(given)
                /\ \A i \in 1..Len(given) :
                      /\ sent[i].Name = given[i].Name
                      /\ sent[i].Value = IF Quoted(given[i].Value)
                                         THEN Inner(given[i].Value)
                                         ELSE given[i].Value

\* a start tag that a rule renamed came with a value in two pairs of quotes
\* that lost the outer pair, with a value that is one quote and kept it, and
\* with a value quoted on one side only
C24_Witness ==
    /\ LastIsStart
    /\ \E p \in PosReal(Len(inp), "StartElement") :
          /\ out[p].tok.name # inp[Len(inp)].tok.name
          /\ \E i, j, l \in 1..Len(out[p].tok.attr) :
                /\ inp[Len(inp)].tok.attr[i].Value = <<Quote, Quote, "v", Quote, Quote>>
                /\ out[p].tok.attr[i].Value = <<Quote, "v", Quote>>
                /\ inp[Len(inp)].tok.attr[j].Value = <<Quote>>
                /\ out[p].tok.attr[j].Value = <<Quote>>
                /\ inp[Len(inp)].tok.attr[l].Value = <<Quote, "v">>
                /\ out[p].tok.attr[l].Value = <<Quote, "v">>

(***************************************************************************)
(* C25  Run terminates: on a finite input with finite rule lists and       *)
(* templates the run comes to an end, completed or aborted.  A handler     *)
(* splices the fragment of a matching rule once and does not handle the    *)
(* fragment's tags as input, so a template holding a tag that is the       *)
(* target of an insert rule, its own rule included, is spliced once per    *)
(* matching token as well: what one token makes a rule emit is never more  *)
(* than the tokens of the rule's template and the one text that Sprintf    *)
(* appends for an argument the template does not use.                      *)
(***************************************************************************)
Terminated == pc \in {"done", "failed"}

EmittedFor(k, role, i) ==
    Cardinality({p \in PosOf(k) : out[p].role = role /\ out[p].rule = i})

SplicedOnce ==
    inp # <<>> =>
        \A role \in {"before", "prepend", "after"} :
            \A i \in 1..Len(ConfigRulesOf(role)) :
                EmittedFor(Len(inp), role, i) <= Len(ConfigRulesOf(role)[i].Template) + 1

C25_RunTerminates == <>Terminated /\ []SplicedOnce

\* the run completed after it spliced a fragment with a start tag that has
\* the name of the target of the fragment's own rule
C25_Witness ==
    /\ pc = "done"
    /\ \E p \in 1..Len(out) :
          /\ IsFragmentRole(out[p].role)
          /\ out[p].tok.kind = "StartElement"
          /\ ConfigRulesOf(out[p].role)[out[p].rule].Target = out[p].tok.name

(***************************************************************************)
(* C26  The tokens of a spliced fragment go to the output as the fragment  *)
(* decoder delivered them and no rule sees them.  For the token handled    *)
(* last: what a rule without a counter emitted is its template token by    *)
(* token (no rename, no sanitation of attribute values, no value or raw    *)
(* handling of its text, white space kept); the handler emitted at most    *)
(* one real tag and at most one wrapper tag, next to the real tag, and     *)
(* every other token it emitted is a fragment token of a rule on the       *)
(* element's own name; and the element stack is the one the input tokens   *)
(* alone give: one deeper with the real start tag on top after a start     *)
(* tag, back to the enclosing element after an end tag.                    *)
(***************************************************************************)
FragmentOf(k, role, i) ==
    LET es == SelectSeq(SubSeq(out, FirstPos(k), LastPos(k)),
                        LAMBDA e : e.role = role /\ e.rule = i)
    IN  [x \in 1..Len(es) |-> es[x].tok]

PlainRule(r) == r.Counter = "" /\ \A x \in 1..Len(r.Template) : r.Template[x].kind # "Verb"

TopName == IF elementStack = <<>> THEN "" ELSE Last(elementStack).name

C26_FragmentsBypassRules ==
    (inp # <<>> /\ ~inp[Len(inp)].failed) =>
        LET k == Len(inp) IN
        /\ \A role \in {"before", "prepend", "after"} :
              \A i \in 1..Len(ConfigRulesOf(role)) :
                  (PlainRule(ConfigRulesOf(role)[i]) /\ EmittedFor(k, role, i) > 0)
                      => FragmentOf(k, role, i) = ConfigRulesOf(role)[i].Template
        /\ \A p \in PosOf(k) :
              out[p].role \in {"real", "wrapper", "before", "prepend", "after"}
        /\ IsStart(k) =>
              /\ PosRole(k, "after") = {}
              /\ \E p \in PosOf(k) :
                    /\ PosRole(k, "real") = {p}
                    /\ PosRole(k, "wrapper") \subseteq {p + 1}
                    /\ \A q \in PosOf(k) : out[q].role = "before" <=> q < p
                    /\ Len(elementStack) = inp[k].depth + 1
                    /\ Last(elementStack) = out[p].tok
        /\ IsEnd(k) =>
              /\ PosRole(k, "before") \cup PosRole(k, "prepend") = {}
              /\ \E p \in PosOf(k) :
                    /\ PosRole(k, "real") = {p}
                    /\ PosRole(k, "wrapper") \subseteq {p - 1}
                    /\ \A q \in PosOf(k) : out[q].role = "after" <=> q > p
              /\ Len(elementStack) = inp[k].depth - 1
              /\ TopName = inp[StartOf(k)].ctx
        /\ IsText(k) =>
              /\ \A p \in PosOf(k) : out[p].role = "real"
              /\ Len(elementStack) = inp[k].depth
              /\ TopName = inp[k].ctx

\* a text of the element a got the value rule of a after a fragment was
\* spliced in front of it whose tag b is the target of a rename, a wrap, an
\* insert, a value and a raw rule, and whose attribute value is quoted
C26_Witness ==
    /\ Len(inp) >= 2
    /\ LastIsText
    /\ IsStart(Len(inp) - 1)
    /\ ~inp[Len(inp)].failed
    /\ inp[Len(inp)].ctx = "a"
    /\ ValueHits("a") # {}
    /\ PosOf(Len(inp)) # {}
    /\ \E i \in 1..Len(config.PrependChildRules) :
          /\ FragmentOf(Len(inp) - 1, "prepend", i) = TplRich
          /\ config.PrependChildRules[i].Template = TplRich
    /\ \E r \in 1..Len(config.NameRules) : config.NameRules[r].Old = "b"
    /\ \E w \in 1..Len(config.WrapRules) : config.WrapRules[w].Target = "b"
    /\ "b" \in Range(config.RawTags)
    /\ ValueHits("b") # {}

(***************************************************************************)
(* C27  Several wrap rules on one target.  An element whose output name is *)
(* a wrap target gets one wrapper start tag at its start tag and one       *)
(* wrapper end tag at its end tag, however many rules name the target;     *)
(* both carry the wrapper of the rule declared last for the target, so the *)
(* end tag names the wrapper that the start tag opened.  An element whose  *)
(* output name is no target gets none.                                     *)
(***************************************************************************)
WrapHits(m) == {i \in 1..Len(config.WrapRules) : config.WrapRules[i].Target = m}
LastWrapper(m) ==
    config.WrapRules[CHOOSE i \in WrapHits(m) : \A j \in WrapHits(m) : j <= i].Wrapper

WrapperNames(k) == {out[p].tok.name : p \in PosRole(k, "wrapper")}

C27_OneWrapperLastRule ==
    /\ LastIsStart =>
          LET k == Len(inp) IN
          \A p \in PosReal(k, "StartElement") :
              LET m == out[p].tok.name IN
              /\ Cardinality(PosRole(k, "wrapper")) <= 1
              /\ \A w \in PosRole(k, "wrapper") :
                    /\ out[w].tok.kind = "StartElement"
                    /\ WrapHits(m) # {}
                    /\ out[w].tok.name = LastWrapper(m)
              /\ (WrapHits(m) # {} /\ ~inp[k].failed) => PosRole(k, "wrapper") # {}
    /\ LastIsEnd =>
          LET k == Len(inp)
              m == inp[k].ctx
          IN  /\ Cardinality(PosRole(k, "wrapper")) <= 1
              /\ \A w \in PosRole(k, "wrapper") :
                    /\ out[w].tok.kind = "EndElement"
                    /\ WrapHits(m) # {}
                    /\ out[w].tok.name = LastWrapper(m)
                    /\ WrapperNames(StartOf(k)) = {out[w].tok.name}
              /\ (WrapHits(m) # {} /\ ~inp[k].failed) => PosRole(k, "wrapper") # {}

\* the end tag of an element was handled whose output name is the target of
\* two rules with different wrappers
C27_Witness ==
    /\ LastIsEnd
    /\ ~inp[Len(inp)].failed
    /\ \E i, j \in WrapHits(inp[Len(inp)].ctx) :
          /\ i < j
          /\ config.WrapRules[i].Wrapper # config.WrapRules[j].Wrapper
          /\ WrapperNames(Len(inp)) = {config.WrapRules[j].Wrapper}
          /\ WrapperNames(StartOf(Len(inp))) = {config.WrapRules[j].Wrapper}

(***************************************************************************)
(* C28  The count that Write returns.  For every call Write(p) whose sink  *)
(* takes all it is given, the count returned is len(p), the number of      *)
(* bytes accepted from the caller, and never more than len(p), also when p *)
(* holds line feeds.                                                       *)
(***************************************************************************)
C28_ReturnsAcceptedCount ==
    \A i \in 1..Len(inp) :
        /\ inp[i].n = Len(inp[i].p)
        /\ inp[i].n <= Len(inp[i].p)

\* a call with a line feed in p returned more than len(p)
C28_Witness ==
    \E i \in 1..Len(inp) :
        /\ "\n" \in Range(inp[i].p)
        /\ inp[i].n > Len(inp[i].p)

====
